---- MODULE Spec2Model ----
(***************************************************************************)
(* Model of conky's named data-source registry and its Lua bridge          *)
(* (src/data-source.hh).  Registrations run as static initialisers, then   *)
(* export_data_sources binds every registry entry as a Lua global; a       *)
(* script invokes a global to run register_data_source<T>::factory, which  *)
(* builds the object inside a Lua userdatum, and then calls numeric() and  *)
(* text() on the handle.                                                   *)
(*                                                                         *)
(* Numbers are held in tenths (Num(1205) stands for 120.5); NaN is a value *)
(* of its own.  Text is a sequence of tokens: one token per digit, sign and *)
(* decimal point, one token per word.                                      *)
(***************************************************************************)
EXTENDS Integers, Sequences, FiniteSets, TLC

\* ----- bounds ------------------------------------------------------------
MaxRegs == 2
MaxObjects == 2
MaxArgs == 2

\* ----- universes ---------------------------------------------------------
Names == {"uptime", "nvidia_temp"}
Cells == {"X"}
Settings == {"BUILD_NVIDIA"}
Values == {1205, 24000, 26000}
NoCall == [key |-> "none", fn |-> [T |-> "none", name |-> "none", arg |-> "none"]]
Num(v) == [nan |-> FALSE, v |-> v]
NaN == [nan |-> TRUE, v |-> 0]
IsNaN(x) == x.nan
NaNCell == "NaN"
Builtin == [T |-> "builtin", name |-> "print", arg |-> "none"]
Variants == {"simple_numeric_source", "disabled_data_source"}

VARIABLES
    data_sources,   \* the registry: a set of entries [name, fn]
    errors,         \* names whose registration was rejected
    nregs,          \* number of registration calls made so far
    reqs,           \* the registration calls made so far, [T, name, arg]
    last_req,       \* the most recent registration call
    exported,       \* export_data_sources has run
    globals,        \* Lua global namespace: name -> callable
    bindCount,      \* number of times export bound each name
    lregistry,      \* Lua registry table: key -> table id
    scalars,        \* the external scalars: cell -> value
    objects,        \* userdata blocks, in allocation order
    via,            \* via[i]: the global whose invocation allocated block i
    born,           \* born[i]: what block i's source held when it was built
    stack,          \* Lua stack of the running factory call
    pc,             \* position inside factory
    cur,            \* the running call: the global invoked and its closure
    t,              \* factory's T *t (0 when no factory runs)
    invoked,        \* number of invocations of bound globals so far
    handles,        \* the userdata values returned to the script
    lastCall        \* the most recent numeric()/text() call and its result,
                    \* forgotten when a scalar is written afterwards

vars == <<data_sources, errors, nregs, reqs, last_req, exported, globals,
          bindCount, lregistry, scalars, objects, via, born, stack, pc, cur,
          t, invoked, handles, lastCall>>

regVars == <<data_sources, errors, nregs, reqs, last_req>>
luaVars == <<exported, globals, bindCount, lregistry>>
callVars == <<stack, pc, cur, t, invoked, handles>>
heapVars == <<objects, via, born>>

\* ----- priv::data_source_metatable ---------------------------------------
data_source_metatable == "conky::data_source_metatable"

\* ----- text --------------------------------------------------------------
Digit(n) == <<"0", "1", "2", "3", "4", "5", "6", "7", "8", "9">>[n + 1]

RECURSIVE Digits(_)
Digits(n) == IF n < 10 THEN <<Digit(n)>>
             ELSE Digits(n \div 10) \o <<Digit(n % 10)>>

Abs(v) == IF v < 0 THEN 0 - v ELSE v

UnavailableText == <<"nan">>

Render(v) ==
    (IF v < 0 THEN <<"-">> ELSE <<>>)
        \o Digits(Abs(v) \div 10) \o <<".">>
        \o <<Digit(Abs(v) % 10), "0", "0", "0", "0", "0">>

Contains(txt, tok) == \E i \in DOMAIN txt : txt[i] = tok

\* ----- values on the Lua stack -------------------------------------------
Userdata(i) == [k |-> "userdata", v |-> i]
Arg(j) == [k |-> "arg", v |-> j]
Table(id) == [k |-> "table", v |-> id]
Nil == [k |-> "nil", v |-> 0]

NoResult == [obj |-> 0, op |-> "none", num |-> NaN, txt |-> <<>>]

Raw == [name |-> "uninit", source |-> "uninit", constructed |-> FALSE, mt |-> 0]

Init ==
    /\ data_sources = {}
    /\ errors = {}
    /\ nregs = 0
    /\ reqs = {}
    /\ last_req = [T |-> "none", name |-> "none", arg |-> "none"]
    /\ exported = FALSE
    /\ globals = ("print" :> Builtin)
    /\ bindCount = [n \in Names \cup {"print"} |-> 0]
    /\ lregistry = <<>>
    /\ scalars \in [Cells -> Values]
    /\ objects = <<>>
    /\ via = <<>>
    /\ born = <<>>
    /\ stack = <<>>
    /\ pc = "idle"
    /\ cur = NoCall
    /\ t = 0
    /\ invoked = 0
    /\ handles = {}
    /\ lastCall = NoResult

\* ----- registration ------------------------------------------------------
Keys(map) == {e.name : e \in map}

\* a multimap-style insert: the entry is added even when the key is present
unordered_map_insert_multi(map, name, fn) ==
    map \cup {[name |-> name, fn |-> fn]}

\* data_sources_t is a std::unordered_map: an insert of a key that is already
\* present leaves the map as it was and reports that nothing was inserted.
unordered_map_insert(map, name, fn) ==
    IF name \in Keys(map) THEN map ELSE map \cup {[name |-> name, fn |-> fn]}

\* std::bind(&factory<Args...>, _1, name, args...)
bind(T, name, arg) == [T |-> T, name |-> name, arg |-> arg]

do_register_data_source(name, fn) ==
    /\ data_sources' = unordered_map_insert(data_sources, name, fn)
    /\ errors' = IF name \in Keys(data_sources) THEN errors \cup {name}
                 ELSE errors

\* the registration is stored under the class name instead of the given name
register_data_source_unkeyed(T, name, arg) ==
    /\ do_register_data_source(T, bind(T, name, arg))
    /\ nregs' = nregs + 1
    /\ reqs' = reqs \cup {[T |-> T, name |-> name, arg |-> arg]}
    /\ last_req' = [T |-> T, name |-> name, arg |-> arg]
    /\ UNCHANGED <<luaVars, scalars, callVars, heapVars, lastCall>>

\* the factory is run once at registration time, building an instance early
register_data_source_eager(T, name, arg) ==
    /\ do_register_data_source(name, bind(T, name, arg))
    /\ nregs' = nregs + 1
    /\ reqs' = reqs \cup {[T |-> T, name |-> name, arg |-> arg]}
    /\ last_req' = [T |-> T, name |-> name, arg |-> arg]
    /\ objects' = Append(objects, [name |-> name, source |-> arg,
                                    constructed |-> TRUE, mt |-> 0])
    /\ via' = Append(via, name)
    /\ born' = Append(born, NaN)
    /\ UNCHANGED <<luaVars, scalars, callVars, lastCall>>

\* the closure takes its extra argument from an entry already registered
register_data_source_lookup(T, name, arg) ==
    /\ do_register_data_source(name,
           bind(T, name, IF data_sources = {} THEN arg
                         ELSE (CHOOSE e \in data_sources : TRUE).fn.arg))
    /\ nregs' = nregs + 1
    /\ reqs' = reqs \cup {[T |-> T, name |-> name, arg |-> arg]}
    /\ last_req' = [T |-> T, name |-> name, arg |-> arg]
    /\ UNCHANGED <<luaVars, scalars, callVars, heapVars, lastCall>>

register_data_source(T, name, arg) ==
    /\ do_register_data_source(name, bind(T, name, arg))
    /\ nregs' = nregs + 1
    /\ reqs' = reqs \cup {[T |-> T, name |-> name, arg |-> arg]}
    /\ last_req' = [T |-> T, name |-> name, arg |-> arg]
    /\ UNCHANGED <<luaVars, scalars, callVars, heapVars, lastCall>>

register_disabled_data_source(name, setting) ==
    register_data_source("disabled_data_source", name, setting)

\* a registration object that is built late, after export has run
RegisterNumeric_late ==
    /\ nregs < MaxRegs
    /\ \E name \in Names, c \in Cells :
           register_data_source("simple_numeric_source", name, c)

\* Registration objects live at global scope: they run before main, hence
\* before export.
RegisterNumeric ==
    /\ ~exported
    /\ nregs < MaxRegs
    /\ \E name \in Names, c \in Cells :
           register_data_source("simple_numeric_source", name, c)

RegisterDisabled ==
    /\ ~exported
    /\ nregs < MaxRegs
    /\ \E name \in Names, setting \in Settings :
           register_disabled_data_source(name, setting)

\* ----- export ------------------------------------------------------------
FnOf(map, n) == (CHOOSE e \in map : e.name = n).fn

export_data_sources ==
    /\ ~exported
    /\ data_sources # {}
    /\ exported' = TRUE
    /\ lregistry' = (data_source_metatable :> (Cardinality(DOMAIN lregistry) + 1))
                        @@ lregistry
    /\ globals' = [n \in DOMAIN globals \cup Keys(data_sources) |->
                      IF n \in Keys(data_sources) THEN FnOf(data_sources, n)
                      ELSE globals[n]]
    /\ bindCount' = [n \in DOMAIN bindCount |->
                      bindCount[n] + Cardinality({e \in data_sources : e.name = n})]
    /\ UNCHANGED <<regVars, scalars, callVars, heapVars, lastCall>>

\* ----- the data-source classes -------------------------------------------
\* the base constructor drops the name it is given
data_source_base_unnamed(name_) == [name |-> ""]

data_source_base(name_) == [name |-> name_]

simple_numeric_source(name_, source_) ==
    data_source_base(name_) @@ [source |-> source_]

disabled_data_source(name_, setting) == simple_numeric_source(name_, NaNCell)

Construct(fn) ==
    IF fn.T = "disabled_data_source" THEN disabled_data_source(fn.name, fn.arg)
    ELSE simple_numeric_source(fn.name, fn.arg)

Deref(p) == IF p = NaNCell THEN NaN ELSE Num(scalars[p])

\* the value is copied when the object is built and returned ever after
get_number_snapshot(i) == born[i]

\* a source without a live value reads as zero
get_number_zero(i) ==
    IF objects[i].source = NaNCell THEN Num(0) ELSE Deref(objects[i].source)

\* simple_numeric_source<T>::get_number
get_number(i) == Deref(objects[i].source)

\* NaN is pushed through the number formatter like any other value
get_text_raw(i) == Render(get_number(i).v)

\* data_source_base::get_text
get_text(i) ==
    IF IsNaN(get_number(i)) THEN UnavailableText ELSE Render(get_number(i).v)

\* ----- register_data_source<T>::factory, one Lua call per step -----------
Invoke(n, k) ==
    /\ exported
    /\ pc = "idle"
    /\ Len(objects) < MaxObjects
    /\ n \in DOMAIN globals
    /\ globals[n].T \in Variants
    /\ cur' = [key |-> n, fn |-> globals[n]]
    /\ stack' = [j \in 1..k |-> Arg(j)]
    /\ pc' = "newuserdata"
    /\ invoked' = invoked + 1
    /\ UNCHANGED <<regVars, luaVars, scalars, heapVars, t, handles, lastCall>>

factory_newuserdata ==
    /\ pc = "newuserdata"
    /\ objects' = Append(objects, Raw)
    /\ via' = Append(via, cur.key)
    /\ born' = Append(born, NaN)
    /\ t' = Len(objects) + 1
    /\ stack' = Append(stack, Userdata(Len(objects) + 1))
    /\ pc' = "insert"
    /\ UNCHANGED <<regVars, luaVars, scalars, cur, invoked, handles, lastCall>>

\* lua::state::insert(1): move the top value to index 1, shifting the rest up
lua_insert1(s) == <<s[Len(s)]>> \o SubSeq(s, 1, Len(s) - 1)

\* the insert(1) call is left out
factory_insert_skipped ==
    /\ pc = "insert"
    /\ pc' = "construct"
    /\ UNCHANGED <<regVars, luaVars, scalars, heapVars, stack, cur, t, invoked,
                   handles, lastCall>>

factory_insert ==
    /\ pc = "insert"
    /\ stack' = lua_insert1(stack)
    /\ pc' = "construct"
    /\ UNCHANGED <<regVars, luaVars, scalars, heapVars, cur, t, invoked, handles,
                   lastCall>>

factory_construct ==
    /\ pc = "construct"
    /\ objects' = [objects EXCEPT ![t] =
                      Construct(cur.fn) @@ [constructed |-> TRUE, mt |-> 0]]
    /\ born' = [born EXCEPT ![t] = Deref(Construct(cur.fn).source)]
    /\ pc' = "settop"
    /\ UNCHANGED <<regVars, luaVars, scalars, via, stack, cur, t, invoked,
                   handles, lastCall>>

factory_settop ==
    /\ pc = "settop"
    /\ stack' = SubSeq(stack, 1, 1)
    /\ pc' = "rawgetfield"
    /\ UNCHANGED <<regVars, luaVars, scalars, heapVars, cur, t, invoked, handles,
                   lastCall>>

factory_rawgetfield ==
    /\ pc = "rawgetfield"
    /\ stack' = Append(stack,
                    IF data_source_metatable \in DOMAIN lregistry
                    THEN Table(lregistry[data_source_metatable]) ELSE Nil)
    /\ pc' = "setmetatable"
    /\ UNCHANGED <<regVars, luaVars, scalars, heapVars, cur, t, invoked, handles,
                   lastCall>>

\* lua::state::setmetatable(-2): pop the table and attach it to the value
\* that was just below it
factory_setmetatable ==
    /\ pc = "setmetatable"
    /\ LET top == stack[Len(stack)]
           target == stack[Len(stack) - 1]
       IN  /\ target.k = "userdata"
           /\ objects' = [objects EXCEPT ![target.v].mt =
                             IF top.k = "table" THEN top.v ELSE 0]
    /\ stack' = SubSeq(stack, 1, Len(stack) - 1)
    /\ pc' = "return"
    /\ UNCHANGED <<regVars, luaVars, scalars, via, born, cur, t, invoked,
                   handles, lastCall>>

\* return 1: the topmost value goes back to the script, the frame is dropped
FactoryResults == 1

Returned(s, n) == {s[j] : j \in (Len(s) - n + 1)..Len(s)}

factory_return ==
    /\ pc = "return"
    /\ handles' = handles \cup
                      {x.v : x \in {y \in Returned(stack, FactoryResults) :
                                        y.k = "userdata"}}
    /\ pc' = "idle"
    /\ stack' = <<>>
    /\ t' = 0
    /\ cur' = NoCall
    /\ UNCHANGED <<regVars, luaVars, scalars, heapVars, invoked, lastCall>>

\* ----- the script's calls on a handle ------------------------------------
IsDataSource(i) ==
    /\ data_source_metatable \in DOMAIN lregistry
    /\ objects[i].mt = lregistry[data_source_metatable]

numeric(i) ==
    /\ pc = "idle"
    /\ i \in handles
    /\ IsDataSource(i)
    /\ lastCall' = [obj |-> i, op |-> "numeric", num |-> get_number(i), txt |-> <<>>]
    /\ UNCHANGED <<regVars, luaVars, scalars, callVars, heapVars>>

text(i) ==
    /\ pc = "idle"
    /\ i \in handles
    /\ IsDataSource(i)
    /\ lastCall' = [obj |-> i, op |-> "text", num |-> NaN, txt |-> get_text(i)]
    /\ UNCHANGED <<regVars, luaVars, scalars, callVars, heapVars>>

\* ----- the external collector --------------------------------------------
Write(c, v) ==
    /\ scalars' = [scalars EXCEPT ![c] = v]
    /\ lastCall' = NoResult
    /\ UNCHANGED <<regVars, luaVars, callVars, heapVars>>

Next ==
    \/ RegisterNumeric
    \/ RegisterDisabled
    \/ export_data_sources
    \/ \E n \in Names, k \in 0..MaxArgs : Invoke(n, k)
    \/ factory_newuserdata
    \/ factory_insert
    \/ factory_construct
    \/ factory_settop
    \/ factory_rawgetfield
    \/ factory_setmetatable
    \/ factory_return
    \/ \E i \in 1..MaxObjects : numeric(i)
    \/ \E i \in 1..MaxObjects : text(i)
    \/ \E c \in Cells, v \in Values : Write(c, v)

Spec == Init /\ [][Next]_vars

TypeOK ==
    /\ Keys(data_sources) \subseteq Names
    /\ pc \in {"idle", "newuserdata", "insert", "construct", "settop",
               "rawgetfield", "setmetatable", "return"}
    /\ Len(objects) <= MaxObjects

\* ----- vocabulary of the properties --------------------------------------
RegisteredNames == {r.name : r \in reqs}

\* every registration call so far used a name of its own
DistinctNames == Cardinality(RegisteredNames) = nregs

\* the closure a handle was made by: the one bound to the global invoked
Bound(i) == globals[via[i]]

Constructed == {i \in DOMAIN objects : objects[i].constructed}

Phase == IF exported THEN "exported"
         ELSE IF data_sources = {} THEN "empty" ELSE "populating"

DigitVal(d) == CHOOSE n \in 0..9 : Digit(n) = d

IsDigit(d) == \E n \in 0..9 : Digit(n) = d

RECURSIVE IntValue(_)
IntValue(ds) == IF ds = <<>> THEN 0
                ELSE 10 * IntValue(SubSeq(ds, 1, Len(ds) - 1)) + DigitVal(ds[Len(ds)])

\* txt is v (in tenths) written as sign, integer part without leading zeros,
\* a point and exactly six decimals
IsCanonical(txt, v) ==
    LET body == IF v < 0 THEN SubSeq(txt, 2, Len(txt)) ELSE txt
        p == Len(body) - 6
        int == SubSeq(body, 1, p - 1)
    IN  /\ v < 0 => txt[1] = "-"
        /\ p >= 2
        /\ body[p] = "."
        /\ \A j \in DOMAIN body : j # p => IsDigit(body[j])
        /\ Len(int) > 1 => int[1] # "0"
        /\ IntValue(int) = Abs(v) \div 10
        /\ DigitVal(body[p + 1]) = Abs(v) % 10
        /\ \A j \in (p + 2)..Len(body) : body[j] = "0"

\* C1: after export every registered name is bound exactly once in the global
\* namespace to a callable, export binds no name that was never registered,
\* and an invocation of a bound callable hands back a data-source handle.
C1_ExportBindsEveryName ==
    exported =>
        /\ \A r \in reqs :
              /\ r.name \in DOMAIN globals
              /\ bindCount[r.name] = 1
              /\ globals[r.name].T \in Variants
              /\ DistinctNames => globals[r.name] = bind(r.T, r.name, r.arg)
        /\ \A n \in DOMAIN bindCount : bindCount[n] > 0 => n \in RegisteredNames
        /\ DOMAIN globals = RegisteredNames \cup {"print"}
        /\ globals["print"] = Builtin
        /\ invoked > 0 /\ pc = "idle" =>
              /\ Cardinality(handles) = invoked
              /\ \A i \in handles : objects[i].constructed /\ IsDataSource(i)

C1_Witness ==
    /\ exported
    /\ DistinctNames
    /\ nregs = 2
    /\ pc = "idle"
    /\ Cardinality(handles) = 2
    /\ {via[i] : i \in handles} = RegisteredNames

\* C2: numeric() on a handle over external scalar X returns what X holds at
\* the time of the call, not what it held when the handle was built.
C2_NumericReadsThrough ==
    (lastCall.op = "numeric"
        /\ Bound(lastCall.obj).T = "simple_numeric_source")
    => lastCall.num = Num(scalars[Bound(lastCall.obj).arg])

C2_Witness ==
    /\ lastCall.op = "numeric"
    /\ Bound(lastCall.obj).T = "simple_numeric_source"
    /\ born[lastCall.obj] = Num(24000)
    /\ lastCall.num = Num(26000)

C6_LazyConstruction ==
    /\ invoked = 0 => objects = <<>>
    /\ ~exported => invoked = 0
    /\ Len(objects) = invoked - (IF pc = "newuserdata" THEN 1 ELSE 0)
    /\ Cardinality(Constructed) =
           invoked - (IF pc \in {"newuserdata", "insert", "construct"} THEN 1 ELSE 0)

C6_Witness ==
    /\ invoked = 2
    /\ pc = "idle"
    /\ Cardinality(Constructed) = 2
    /\ via[1] = via[2]

\* C7: with pairwise distinct names the registry and the exported bindings
\* are determined by the set of registrations made, whatever their order, and
\* each entry is the closure over that registration's own arguments.
C7_OrderIndependent ==
    DistinctNames =>
        /\ data_sources =
              {[name |-> r.name, fn |-> bind(r.T, r.name, r.arg)] : r \in reqs}
        /\ errors = {}
        /\ exported =>
              /\ DOMAIN globals = RegisteredNames \cup {"print"}
              /\ \A r \in reqs : globals[r.name] = bind(r.T, r.name, r.arg)

C7_Witness ==
    /\ exported
    /\ DistinctNames
    /\ nregs = 2
    /\ last_req = [T |-> "simple_numeric_source", name |-> "uptime", arg |-> "X"]

\* C8: the default get_text gives the unavailability string when get_number
\* is NaN and the canonical six-decimal rendering of get_number otherwise;
\* 120.5 reads "120.500000".
C8_TextMatchesNumber ==
    lastCall.op = "text" =>
        LET v == get_number(lastCall.obj) IN
        IF IsNaN(v)
        THEN /\ lastCall.txt = UnavailableText
             /\ \A j \in DOMAIN lastCall.txt : ~IsDigit(lastCall.txt[j])
        ELSE /\ IsCanonical(lastCall.txt, v.v)
             /\ v.v = 1205 =>
                   lastCall.txt = <<"1", "2", "0", ".", "5", "0", "0", "0", "0", "0">>

C8_Witness ==
    /\ lastCall.op = "text"
    /\ via[lastCall.obj] = "uptime"
    /\ get_number(lastCall.obj) = Num(1205)
    /\ lastCall.txt = <<"1", "2", "0", ".", "5", "0", "0", "0", "0", "0">>

\* C9: factory allocates, constructs in place, then tags: the userdata sits
\* at stack index 1 with the call's arguments above it while the constructor
\* runs, and at return the stack holds that userdata alone, tagged with the
\* one metatable stored under "conky::data_source_metatable"; one value is
\* returned.
C9_FactoryStack ==
    /\ pc \in {"construct", "settop"} =>
          /\ stack[1] = Userdata(t)
          /\ \A j \in 2..Len(stack) : stack[j] = Arg(j - 1)
    /\ pc \in {"newuserdata", "insert", "construct"} /\ t # 0 =>
          ~objects[t].constructed
    /\ \A i \in DOMAIN objects : objects[i].mt # 0 => objects[i].constructed
    /\ pc = "return" =>
          /\ stack = <<Userdata(t)>>
          /\ objects[t].constructed
          /\ Returned(stack, FactoryResults) = {Userdata(t)}
    /\ \A i \in DOMAIN objects : i # t \/ pc = "return" =>
          /\ data_source_metatable \in DOMAIN lregistry
          /\ objects[i].mt = lregistry[data_source_metatable]
    /\ handles = {i \in DOMAIN objects : i # t}

C9_Witness ==
    /\ pc = "return"
    /\ t = 2
    /\ objects[1].mt = objects[2].mt
    /\ objects[2].mt # 0
    /\ stack = <<Userdata(2)>>

\* C10: an instance made through the global bound to N is named N, and its
\* name never changes afterwards.
C10_NameFixed ==
    /\ [](\A i \in Constructed : objects[i].name = via[i])
    /\ [][\A i \in Constructed : objects'[i].name = objects[i].name]_vars

C10_Witness ==
    /\ Cardinality(Constructed) = 2
    /\ objects[1].name = "uptime"
    /\ objects[2].name = "nvidia_temp"
    /\ lastCall.op = "text"
    /\ scalars["X"] # born[1].v
====
